---- MODULE Spec2Model ----
(***************************************************************************)
(* A model of the ExifTool GUI (src/exiftool_gui.py): the editing session  *)
(* of ExifToolGUI (current file, metadata record, modified set, clipboard, *)
(* tree view), the batch dialog of BatchProcessDialog and the template     *)
(* manager of TemplateManagerDialog with its store file.                   *)
(*                                                                         *)
(* Python strings are sequences of one-character strings, so that          *)
(* splitting, joining, escaping, lower-casing and truncation are computed  *)
(* as the code computes them.  A metadata value is a record                *)
(* [t |-> "str" | "int", s |-> its str() form], or [t |-> "list", s |->    *)
(* the sequence of its items] for a list of strings.                       *)
(***************************************************************************)
EXTENDS Integers, Sequences, FiniteSets, TLC

VARIABLES
    current_file,     \* ExifToolGUI.current_file: a path, or None
    metadata,         \* ExifToolGUI.metadata: a function TagKey -> value
    modified_fields,  \* ExifToolGUI.modified_fields: a set of TagKeys
    clipboard_data,   \* ExifToolGUI.clipboard_data: [kind, map]
    tree,             \* ExifToolGUI.tree: sequence of category nodes with rows
    export_file,      \* the file written by export_metadata (set of members)
    op,               \* the last handler that ran, its inputs and outcome
    pre,              \* metadata and modified_fields when that handler began
    files,            \* BatchProcessDialog.files
    count_label,      \* BatchProcessDialog.count_label (the number shown)
    operation_var,    \* BatchProcessDialog.operation_var
    bpc,              \* position of process_files
    bi,               \* loop index i of process_files
    progress,         \* ProgressDialog: "none", "open", "destroyed", "closed"
    log,              \* events of the batch run, in order
    report,           \* the message boxes of the last process_files call
    bop,              \* the last change of the file list: handler, paths, list before
    templates,        \* TemplateManagerDialog.templates of each dialog: [kind, map]
    template_listbox, \* the names each dialog's template_listbox shows
    store,            \* the file ~/.exiftool_gui_templates.json
    top,              \* the last handler of a template manager that ran
    steps             \* the number of handlers run so far

svars == <<current_file, metadata, modified_fields, clipboard_data, tree,
           export_file, op, pre>>
bvars == <<files, count_label, operation_var, bpc, bi, progress, log, report,
           bop>>
tvars == <<templates, template_listbox, store, top>>
vars == <<current_file, metadata, modified_fields, clipboard_data, tree,
          export_file, op, pre, files, count_label, operation_var, bpc, bi,
          progress, log, report, bop, templates, template_listbox, store, top,
          steps>>

None == "None"

(***************************************************************************)
(* Strings.                                                                *)
(***************************************************************************)

\* ord(c) for the characters the model uses
Ord(c) ==
    CASE c = " " -> 32 [] c = "\"" -> 34 [] c = "." -> 46
      [] c = "0" -> 48 [] c = "1" -> 49 [] c = "2" -> 50 [] c = "3" -> 51
      [] c = "4" -> 52 [] c = "5" -> 53 [] c = "6" -> 54 [] c = "7" -> 55
      [] c = "8" -> 56 [] c = "9" -> 57 [] c = ":" -> 58 [] c = "@" -> 64
      [] c = "E" -> 69 [] c = "F" -> 70 [] c = "M" -> 77 [] c = "N" -> 78
      [] c = "S" -> 83 [] c = "\\" -> 92 [] c = "a" -> 97 [] c = "b" -> 98
      [] c = "e" -> 101 [] c = "f" -> 102 [] c = "i" -> 105 [] c = "l" -> 108
      [] c = "m" -> 109 [] c = "n" -> 110 [] c = "s" -> 115 [] c = "x" -> 120
      [] OTHER -> 0

\* str.lower() on one character
LowerChar(c) ==
    CASE c = "E" -> "e" [] c = "F" -> "f" [] c = "M" -> "m" [] c = "N" -> "n"
      [] c = "S" -> "s" [] OTHER -> c

Lower(s) == [i \in 1..Len(s) |-> LowerChar(s[i])]

\* Python's < on str
StrLess(a, b) ==
    \E i \in 1..(Len(a) + 1) :
        /\ i <= Len(b)
        /\ \A j \in 1..(i - 1) : a[j] = b[j]
        /\ (i = Len(a) + 1 \/ Ord(a[i]) < Ord(b[i]))

\* `sub in s`
Contains(s, sub) ==
    \E i \in 0..(Len(s) - Len(sub)) : SubSeq(s, i + 1, i + Len(sub)) = sub

\* index of the first occurrence of c in s, 0 when there is none
FirstIndex(s, c) ==
    IF \E i \in 1..Len(s) : s[i] = c
    THEN CHOOSE i \in 1..Len(s) : s[i] = c /\ \A j \in 1..(i - 1) : s[j] # c
    ELSE 0

\* s[n:]
Drop(s, n) == SubSeq(s, n + 1, Len(s))

\* s[:n]
Take(s, n) == SubSeq(s, 1, IF n < Len(s) THEN n ELSE Len(s))

RECURSIVE ReplaceChar(_, _, _)
\* s.replace(c, r) for a one-character c
ReplaceChar(s, c, r) ==
    IF s = <<>> THEN <<>>
    ELSE (IF Head(s) = c THEN r ELSE <<Head(s)>>) \o ReplaceChar(Tail(s), c, r)

(***************************************************************************)
(* Tag keys, values and what the external tool can print.                  *)
(***************************************************************************)

StrVal(s) == [t |-> "str", s |-> s]
IntVal(s) == [t |-> "int", s |-> s]
\* a list of strings, as the tool prints a tag of several values
ListVal(items) == [t |-> "list", s |-> items]

\* repr of a str: in double quotes when it holds ' and no ", else in single
\* quotes; backslashes and the quote character escaped
PyReprStr(s) ==
    IF Contains(s, <<"'">>) /\ ~Contains(s, <<"\"">>)
    THEN <<"\"">> \o ReplaceChar(s, "\\", <<"\\", "\\">>) \o <<"\"">>
    ELSE <<"'">>
           \o ReplaceChar(ReplaceChar(s, "\\", <<"\\", "\\">>), "'", <<"\\", "'">>)
           \o <<"'">>

RECURSIVE JoinComma(_)
\* ', '.join(parts)
JoinComma(parts) ==
    IF parts = <<>> THEN <<>>
    ELSE IF Len(parts) = 1 THEN parts[1]
    ELSE parts[1] \o <<",", " ">> \o JoinComma(Tail(parts))

\* str(value): of a list, the reprs of its items between brackets
PyStr(v) ==
    IF v.t = "list"
    THEN <<"[">> \o JoinComma([i \in DOMAIN v.s |-> PyReprStr(v.s[i])]) \o <<"]">>
    ELSE v.s

FileCat == <<"F", "i", "l", "e">>

KeyFileN == <<"F", "i", "l", "e", ":", "N">>   \* "File:N", a key of group File
KeyN == <<"N">>                                \* "N", a bare key
KeyS == <<"S">>                                \* "S", the bare key the tool prints
KeyEM == <<"E", ":", "M">>                     \* "E:M", a key of group E

EmptyRec == [k \in {} |-> StrVal(<<>>)]

RecFull ==
    [k \in {KeyS, KeyFileN, KeyEM} |->
        IF k = KeyS THEN StrVal(<<"a">>)
        ELSE IF k = KeyFileN THEN IntVal(<<"1">>)
        ELSE StrVal(<<"a", "\"">>)]

RecStripped ==
    [k \in {KeyS, KeyFileN} |->
        IF k = KeyS THEN StrVal(<<"a">>) ELSE IntVal(<<"1">>)]

\* the records `exiftool -j -G -s <file>` can print (element [0] of its JSON)
ToolRecords == {RecFull, RecStripped}

\* the paths a file dialog can return
Paths == {"p1", "p2"}

\* how one read of the external tool can end: exit status 1, a failure to
\* launch, exit status 0 with unparseable output, exit status 0 with a record
ReadOutcomes ==
    {[rc |-> "1", good |-> FALSE, rec |-> EmptyRec],
     [rc |-> "raise", good |-> FALSE, rec |-> EmptyRec],
     [rc |-> "0", good |-> FALSE, rec |-> EmptyRec]}
    \cup {[rc |-> "0", good |-> TRUE, rec |-> r] : r \in ToolRecords}

\* no read was made
NoRead == [rc |-> "none", good |-> FALSE, rec |-> EmptyRec]

\* how one write of the external tool can end
WriteOutcomes == {"0", "1", "raise"}

(***************************************************************************)
(* JSON, as json.dump and json.load treat strings and integers.  A JSON    *)
(* object is the set of its members [k, v], each the text of a JSON value. *)
(***************************************************************************)

\* the escapes json.dump applies inside a string
JsonEscape(s) ==
    ReplaceChar(ReplaceChar(s, "\\", <<"\\", "\\">>), "\"", <<"\\", "\"">>)

RECURSIVE JsonUnescape(_)
JsonUnescape(s) ==
    IF s = <<>> THEN <<>>
    ELSE IF Head(s) = "\\" /\ Len(s) >= 2
         THEN <<s[2]>> \o JsonUnescape(Drop(s, 2))
         ELSE <<Head(s)>> \o JsonUnescape(Tail(s))

\* a dump that writes every value as a string (json.dump(..., default=str) style)
JsonDumpValueAllQuoted(v) == <<"\"">> \o JsonEscape(v.s) \o <<"\"">>

JsonDumpValue(v) ==
    IF v.t = "str" THEN <<"\"">> \o JsonEscape(v.s) \o <<"\"">> ELSE v.s

JsonLoadValue(txt) ==
    IF txt # <<>> /\ Head(txt) = "\""
    THEN StrVal(JsonUnescape(SubSeq(txt, 2, Len(txt) - 1)))
    ELSE IntVal(txt)

\* json.dump(self.metadata, f, indent=2, ensure_ascii=False)
JsonDump(md) ==
    [kind |-> "object",
     members |-> {[k |-> JsonDumpValue(StrVal(key)), v |-> JsonDumpValue(md[key])] :
                    key \in DOMAIN md}]

\* json.load(f) of a file whose text is a JSON object
JsonLoad(doc) ==
    [key \in {JsonLoadValue(e.k).s : e \in doc.members} |->
        JsonLoadValue((CHOOSE e \in doc.members : JsonLoadValue(e.k).s = key).v)]

\* no file: nothing exported yet, nothing imported
NoFile == [kind |-> "none", members |-> {}]

(***************************************************************************)
(* The tree view: display_metadata, filter_metadata, show_modified_only.   *)
(* A category node is [text, rows]; a row is [text, value, modified, key], *)
(* where key is the full key the row was built from.  The widget does not  *)
(* store key and no handler reads it: it is kept to state what an edit of  *)
(* the row refers to.                                                      *)
(***************************************************************************)

TruncLimit == 100
TruncKeep == 97

Ellipsis == <<".", ".", ".">>

\* a truncation that keeps 100 characters: display_value[:100] + "..."
TruncateKeepsLimit(s) ==
    IF Len(s) > TruncLimit THEN Take(s, TruncLimit) \o Ellipsis ELSE s

\* if len(display_value) > 100: display_value = display_value[:97] + "..."
Truncate(s) == IF Len(s) > TruncLimit THEN Take(s, TruncKeep) \o Ellipsis ELSE s

\* json.dumps(value, ensure_ascii=False) of a list of strings
JsonDumps(v) ==
    <<"[">>
      \o JoinComma([i \in DOMAIN v.s |-> <<"\"">> \o JsonEscape(v.s[i]) \o <<"\"">>])
      \o <<"]">>

\* display_metadata: json.dumps for a list or dict, str(value) otherwise
FormatGrouped(v) == Truncate(IF v.t = "list" THEN JsonDumps(v) ELSE PyStr(v))

\* filter_metadata and show_modified_only: str(value)
FormatPlain(v) == Truncate(PyStr(v))

\* category, tag = key.split(':', 1), or ('File', key) without a ':'
SplitKey(key) ==
    LET i == FirstIndex(key, ":")
    IN  IF i # 0 THEN [cat |-> Take(key, i - 1), tag |-> Drop(key, i)]
        ELSE [cat |-> FileCat, tag |-> key]

Item(md, key) ==
    [cat |-> SplitKey(key).cat, tag |-> SplitKey(key).tag,
     value |-> md[key], key |-> key]

DigitVal(c) == Ord(c) - Ord("0")

RECURSIVE IntOf(_)
\* int(s) for a string of digits
IntOf(s) ==
    IF s = <<>> THEN 0
    ELSE IntOf(SubSeq(s, 1, Len(s) - 1)) * 10 + DigitVal(s[Len(s)])

\* Python's < on two lists of str
ListLess(a, b) ==
    \E i \in 1..(Len(a) + 1) :
        /\ i <= Len(b)
        /\ \A j \in 1..(i - 1) : a[j] = b[j]
        /\ (i = Len(a) + 1 \/ StrLess(a[i], b[i]))

\* a < b for two values of one type
ValueLess(a, b) ==
    IF a.t = "int" THEN IntOf(a.s) < IntOf(b.s)
    ELSE IF a.t = "list" THEN ListLess(a.s, b.s)
    ELSE StrLess(a.s, b.s)

\* tuple comparison (tag, value, key) < (tag, value, key)
RowLess(x, y) ==
    IF x.tag # y.tag THEN StrLess(x.tag, y.tag)
    ELSE IF x.value # y.value THEN ValueLess(x.value, y.value)
    ELSE StrLess(x.key, y.key)

\* sorted() raises TypeError when it has to order a str against an int: two
\* tuples with the same tag and values of different types
SortRaises(items) ==
    \E x \in items, y \in items :
        x # y /\ x.tag = y.tag /\ x.value.t # y.value.t

RECURSIVE SortStrs(_)
\* sorted(categories.keys())
SortStrs(S) ==
    IF S = {} THEN <<>>
    ELSE LET m == CHOOSE x \in S : \A y \in S \ {x} : StrLess(x, y)
         IN  <<m>> \o SortStrs(S \ {m})

RECURSIVE SortRows(_)
\* sorted(categories[category])
SortRows(S) ==
    IF S = {} THEN <<>>
    ELSE LET m == CHOOSE x \in S : \A y \in S \ {x} : RowLess(x, y)
         IN  <<m>> \o SortRows(S \ {m})

Icon == <<"@">>

\* the categories in sorted order, each inserted with its sorted rows
\* (grouped: the view of display_metadata, with icons and its formatting); a
\* TypeError in the sort of a category leaves its node without rows and the
\* later categories uninserted
BuildTree(items, grouped, marked) ==
    LET cats == SortStrs({it.cat : it \in items})
        of(c) == {it \in items : it.cat = c}
        bad == {i \in 1..Len(cats) : SortRaises(of(cats[i]))}
        stop == IF bad = {} THEN Len(cats)
                ELSE CHOOSE i \in bad : \A j \in bad : i <= j
        row(it) == [text |-> it.tag,
                    value |-> IF grouped THEN FormatGrouped(it.value)
                              ELSE FormatPlain(it.value),
                    modified |-> it.key \in marked, key |-> it.key]
        rows(c) == LET srt == SortRows(of(c))
                   IN  [j \in 1..Len(srt) |-> row(srt[j])]
    IN  [raised |-> bad # {},
         tree |-> [i \in 1..stop |->
                     [text |-> IF grouped THEN Icon \o <<" ">> \o cats[i]
                               ELSE cats[i],
                      rows |-> IF i \in bad THEN <<>> ELSE rows(cats[i])]]]

DisplayMetadata(md, mod) ==
    BuildTree({Item(md, k) : k \in DOMAIN md}, TRUE, mod)

Matches(md, key, term) ==
    Contains(Lower(key), term) \/ Contains(Lower(PyStr(md[key])), term)

FilterMetadata(md, mod, term) ==
    IF term = <<>> THEN DisplayMetadata(md, mod)
    ELSE BuildTree({Item(md, k) : k \in {q \in DOMAIN md : Matches(md, q, term)}},
                   FALSE, mod)

\* self.metadata.get(key, default)
Get(md, key, default) == IF key \in DOMAIN md THEN md[key] ELSE default

ShowModifiedOnly(md, mod) ==
    BuildTree({[cat |-> SplitKey(k).cat, tag |-> SplitKey(k).tag,
                value |-> Get(md, k, StrVal(<<>>)), key |-> k] : k \in mod},
              FALSE, mod)

(***************************************************************************)
(* Invocations of the external tool.  A command is [kind, overwrite, args, *)
(* file, rc]: args are the set-field arguments, rc is how the call ended.  *)
(***************************************************************************)

Cmd(kind, overwrite, args, file, rc) ==
    [kind |-> kind, overwrite |-> overwrite, args |-> args, file |-> file,
     rc |-> rc]

\* value.replace('"', '\\"') for a str, then f'-{field}={value}'
SetFieldArg(field, value) ==
    <<"-">> \o field \o <<"=">> \o
        (IF value.t = "str"
         THEN ReplaceChar(value.s, "\"", <<"\\", "\"">>)
         ELSE PyStr(value))

\* the arguments save_changes adds, one for each field of modified_fields
SaveArgs(md, mod) == {SetFieldArg(f, Get(md, f, StrVal(<<>>))) : f \in mod}

\* the record of the last handler: its name and how it ended, the key of the
\* row edited and the tag written, the count and the mapping of a merge, the
\* file imported, the tool invocations made and the outcome of the read, the
\* search term of a filter and the five numbers of a shift, the text the edit
\* dialog proposed and the text it was confirmed with
NoOp ==
    [name |-> "init", result |-> "", key |-> <<>>, tag |-> <<>>, count |-> 0,
     incoming |-> EmptyRec, doc |-> NoFile, cmds |-> <<>>, read |-> NoRead,
     term |-> <<>>, inp |-> <<>>, shown |-> <<>>, text |-> <<>>]

Op(name, result, cmds) == [NoOp EXCEPT !.name = name, !.result = result,
                                       !.cmds = cmds]

Snapshot == [metadata |-> metadata, modified_fields |-> modified_fields,
             current_file |-> current_file]

(***************************************************************************)
(* load_metadata, as the handlers call it: md and tr are self.metadata and *)
(* the tree when it is called, mod is self.modified_fields, r the outcome  *)
(* of the read.  It leaves self.modified_fields alone.                     *)
(***************************************************************************)

ReadOk(r) == r.rc = "0" /\ r.good

LoadMetadata(md, tr, mod, file, r) ==
    IF file = None
    THEN [metadata |-> md, tree |-> tr, cmds |-> <<>>, ok |-> FALSE,
          read |-> NoRead]
    ELSE [metadata |-> IF ReadOk(r) THEN r.rec ELSE md,
          tree |-> IF ReadOk(r) THEN DisplayMetadata(r.rec, mod).tree ELSE tr,
          cmds |-> <<Cmd("read", FALSE, {}, file, r.rc)>>,
          ok |-> ReadOk(r), read |-> r]

\* a handler of the main window touches neither the batch dialog nor the
\* template manager
BatchIdle == UNCHANGED bvars /\ UNCHANGED tvars

(***************************************************************************)
(* The handlers of ExifToolGUI.                                            *)
(***************************************************************************)

\* load_file(filename); statOk is whether file_path.stat() succeeds
LoadFile(f, statOk, r) ==
    LET ld == LoadMetadata(metadata, tree, {}, f, r)
    IN  /\ current_file' = f
        /\ modified_fields' = {}
        /\ metadata' = IF statOk THEN ld.metadata ELSE metadata
        /\ tree' = IF statOk THEN ld.tree ELSE tree
        /\ op' = IF ~statOk THEN Op("load_file", "stat_raised", <<>>)
                 ELSE [Op("load_file", IF ld.ok THEN "ok" ELSE "read_failed",
                          ld.cmds) EXCEPT !.read = ld.read]
        /\ pre' = Snapshot
        /\ UNCHANGED <<clipboard_data, export_file>>
        /\ BatchIdle

\* filter_metadata, run when the search text is written
Filter(text) ==
    /\ tree' = FilterMetadata(metadata, modified_fields, Lower(text)).tree
    /\ op' = [Op("filter", IF text = <<>> THEN "all" ELSE "filtered", <<>>)
                EXCEPT !.term = Lower(text)]
    /\ pre' = Snapshot
    /\ UNCHANGED <<current_file, metadata, modified_fields, clipboard_data,
                   export_file>>
    /\ BatchIdle

\* show_modified_only
ShowModified ==
    /\ tree' = IF modified_fields = {} THEN tree
               ELSE ShowModifiedOnly(metadata, modified_fields).tree
    /\ op' = Op("show_modified", IF modified_fields = {} THEN "none" ELSE "shown",
                <<>>)
    /\ pre' = Snapshot
    /\ UNCHANGED <<current_file, metadata, modified_fields, clipboard_data,
                   export_file>>
    /\ BatchIdle

\* self.tree.item(parent, 'text').split(' ', 1)[1]: the text after the first
\* space; IndexError when the text has no space
HasSpace(text) == FirstIndex(text, " ") # 0
AfterSpace(text) == Drop(text, FirstIndex(text, " "))

\* full_tag = f"{category}:{tag_name}" if category != 'File' else tag_name
FullTag(category, tag_name) ==
    IF category # FileCat THEN category \o <<":">> \o tag_name ELSE tag_name

\* edit_tag on row j of category node i, then save_edit with the text typed
EditTag(i, j, text) ==
    LET node == tree[i]
        row == node.rows[j]
    IN  IF ~HasSpace(node.text)
        THEN /\ op' = [Op("edit", "index_error", <<>>) EXCEPT
                          !.key = row.key, !.shown = row.value]
             /\ pre' = Snapshot
             /\ UNCHANGED <<current_file, metadata, modified_fields,
                            clipboard_data, tree, export_file>>
             /\ BatchIdle
        ELSE LET full_tag == FullTag(AfterSpace(node.text), row.text)
             IN  /\ metadata' =
                        [k \in DOMAIN metadata \cup {full_tag} |->
                            IF k = full_tag THEN StrVal(text) ELSE metadata[k]]
                 /\ modified_fields' = modified_fields \cup {full_tag}
                 /\ tree' = [tree EXCEPT ![i].rows[j].value = Truncate(text),
                                         ![i].rows[j].modified = TRUE]
                 /\ op' = [Op("edit", "saved", <<>>) EXCEPT
                              !.key = row.key, !.tag = full_tag,
                              !.shown = row.value, !.text = text]
                 /\ pre' = Snapshot
                 /\ UNCHANGED <<current_file, clipboard_data, export_file>>
                 /\ BatchIdle

\* a save that clears the modified set before it looks at the exit status
SavedModifiedAlwaysClears(mod, w) == {}

\* if result.returncode == 0: ...; self.modified_fields.clear()
SavedModified(mod, w) == IF w = "0" THEN {} ELSE mod

\* save_changes; w is the outcome of the write, r of the read that follows
SaveChanges(w, r) ==
    IF current_file = None \/ modified_fields = {}
    THEN /\ op' = Op("save", "nothing", <<>>)
         /\ pre' = Snapshot
         /\ UNCHANGED <<current_file, metadata, modified_fields, clipboard_data,
                        tree, export_file>>
         /\ BatchIdle
    ELSE LET cmd == Cmd("write", TRUE, SaveArgs(metadata, modified_fields),
                        current_file, w)
             ld == LoadMetadata(metadata, tree, {}, current_file, r)
         IN  /\ modified_fields' = SavedModified(modified_fields, w)
             /\ metadata' = IF w = "0" THEN ld.metadata ELSE metadata
             /\ tree' = IF w = "0" THEN ld.tree ELSE tree
             /\ op' = IF w = "0"
                      THEN [Op("save", "ok", <<cmd>> \o ld.cmds)
                              EXCEPT !.read = ld.read]
                      ELSE Op("save", "failed", <<cmd>>)
             /\ pre' = Snapshot
             /\ UNCHANGED <<current_file, clipboard_data, export_file>>
             /\ BatchIdle

\* remove_all_tags; yes is the answer to the confirmation
RemoveAllTags(yes, w, r) ==
    IF current_file = None \/ ~yes
    THEN /\ op' = Op("remove_all", "nothing", <<>>)
         /\ pre' = Snapshot
         /\ UNCHANGED <<current_file, metadata, modified_fields, clipboard_data,
                        tree, export_file>>
         /\ BatchIdle
    ELSE LET cmd == Cmd("strip", TRUE, {}, current_file, w)
             ld == LoadMetadata(metadata, tree, modified_fields, current_file, r)
         IN  /\ metadata' = IF w = "0" THEN ld.metadata ELSE metadata
             /\ tree' = IF w = "0" THEN ld.tree ELSE tree
             /\ op' = IF w = "0"
                      THEN [Op("remove_all", "ok", <<cmd>> \o ld.cmds)
                              EXCEPT !.read = ld.read]
                      ELSE Op("remove_all", "failed", <<cmd>>)
             /\ pre' = Snapshot
             /\ UNCHANGED <<current_file, modified_fields, clipboard_data,
                            export_file>>
             /\ BatchIdle

(***************************************************************************)
(* DateTimeShiftDialog.apply_shift.                                        *)
(***************************************************************************)

DigitChar(d) == <<"0", "1", "2", "3", "4", "5", "6", "7", "8", "9">>[d + 1]

RECURSIVE Digits(_)
\* the decimal digits of n >= 0
Digits(n) == IF n < 10 THEN <<DigitChar(n)>>
             ELSE Digits(n \div 10) \o <<DigitChar(n % 10)>>

Abs(n) == IF n < 0 THEN -n ELSE n

RECURSIVE Zeros(_)
Zeros(n) == IF n <= 0 THEN <<>> ELSE <<"0">> \o Zeros(n - 1)

\* f"{n:+0<width>d}": the sign, zeros up to the width (the sign counts), digits
FmtSignedPad(n, width) ==
    <<IF n < 0 THEN "-" ELSE "+">>
        \o Zeros(width - 1 - Len(Digits(Abs(n)))) \o Digits(Abs(n))

\* a format without the sign flag: f"{n:d}"
FmtPlain(n) == (IF n < 0 THEN <<"-">> ELSE <<>>) \o Digits(Abs(n))

\* f"{n:+d}"
FmtSigned(n) == FmtSignedPad(n, 0)

MinuteWidth == 2

\* shift_parts with the clock clause appended whatever the hours and minutes
ShiftPartsAlwaysClock(years, months, days, hours, minutes) ==
    (IF years # 0 THEN <<FmtSigned(years) \o <<":", "0", ":", "0">>>> ELSE <<>>)
    \o (IF months # 0
        THEN <<(<<"0", ":">> \o FmtSigned(months) \o <<":", "0">>)>> ELSE <<>>)
    \o (IF days # 0 THEN <<(<<"0", ":", "0", ":">> \o FmtSigned(days))>> ELSE <<>>)
    \o <<(FmtSigned(hours) \o <<":">> \o FmtSignedPad(minutes, MinuteWidth)
          \o <<":", "0">>)>>

\* shift_parts of apply_shift
ShiftParts(years, months, days, hours, minutes) ==
    (IF years # 0 THEN <<FmtSigned(years) \o <<":", "0", ":", "0">>>> ELSE <<>>)
    \o (IF months # 0
        THEN <<(<<"0", ":">> \o FmtSigned(months) \o <<":", "0">>)>> ELSE <<>>)
    \o (IF days # 0 THEN <<(<<"0", ":", "0", ":">> \o FmtSigned(days))>> ELSE <<>>)
    \o (IF hours # 0 \/ minutes # 0
        THEN <<(FmtSigned(hours) \o <<":">> \o FmtSignedPad(minutes, MinuteWidth)
                \o <<":", "0">>)>>
        ELSE <<>>)

RECURSIVE Join(_)
\* " ".join(parts)
Join(parts) ==
    IF parts = <<>> THEN <<>>
    ELSE IF Len(parts) = 1 THEN parts[1]
    ELSE parts[1] \o <<" ">> \o Join(Tail(parts))

\* the values of the five spin boxes the model tries
ShiftInputs == {<<0, 0, 0, 0, 0>>, <<1, 0, 0, 0, 0>>, <<0, 0, 0, 2, -5>>}

\* datetime_shift opens the dialog on the current file, apply_shift runs
ApplyShift(inp, w, r) ==
    LET parts == ShiftParts(inp[1], inp[2], inp[3], inp[4], inp[5])
    IN  IF current_file = None \/ parts = <<>>
        THEN /\ op' = [Op("shift", "nothing", <<>>) EXCEPT !.inp = inp]
             /\ pre' = Snapshot
             /\ UNCHANGED <<current_file, metadata, modified_fields,
                            clipboard_data, tree, export_file>>
             /\ BatchIdle
        ELSE LET cmd == Cmd("shift", TRUE, {Join(parts)}, current_file, w)
                 ld == LoadMetadata(metadata, tree, modified_fields,
                                    current_file, r)
             IN  /\ metadata' = IF w = "0" THEN ld.metadata ELSE metadata
                 /\ tree' = IF w = "0" THEN ld.tree ELSE tree
                 /\ op' = IF w = "0"
                          THEN [Op("shift", "ok", <<cmd>> \o ld.cmds)
                                  EXCEPT !.read = ld.read, !.inp = inp]
                          ELSE [Op("shift", "failed", <<cmd>>) EXCEPT !.inp = inp]
                 /\ pre' = Snapshot
                 /\ UNCHANGED <<current_file, modified_fields, clipboard_data,
                                export_file>>
                 /\ BatchIdle

(***************************************************************************)
(* Export, import, copy and paste.                                         *)
(***************************************************************************)

\* an import that takes every incoming key (self.metadata.update(imported_data))
ImportLoopAddsKeys(todo, incoming, md, mod, count) ==
    [metadata |-> [k \in DOMAIN md \cup todo |->
                      IF k \in todo THEN incoming[k] ELSE md[k]],
     modified_fields |-> mod \cup todo,
     count |-> count + Cardinality(todo)]

RECURSIVE ImportLoop(_, _, _, _, _)
\* import_metadata: for key, value in imported_data.items(): ...
\* todo is the set of incoming keys the loop has not visited yet
ImportLoop(todo, incoming, md, mod, count) ==
    IF todo = {} THEN [metadata |-> md, modified_fields |-> mod, count |-> count]
    ELSE LET key == CHOOSE k \in todo : TRUE
         IN  IF key \in DOMAIN md
             THEN ImportLoop(todo \ {key}, incoming,
                             [md EXCEPT ![key] = incoming[key]],
                             mod \cup {key}, count + 1)
             ELSE ImportLoop(todo \ {key}, incoming, md, mod, count)

\* a paste that overwrites the values and forgets to mark them modified
PasteLoopNoMark(todo, incoming, md, mod, count) ==
    [metadata |-> [k \in DOMAIN md |->
                      IF k \in todo THEN incoming[k] ELSE md[k]],
     modified_fields |-> mod,
     count |-> count + Cardinality(todo \cap DOMAIN md)]

\* a paste that counts every key of the clipboard
PasteLoopCountsAll(todo, incoming, md, mod, count) ==
    [metadata |-> [k \in DOMAIN md |->
                      IF k \in todo THEN incoming[k] ELSE md[k]],
     modified_fields |-> mod \cup (todo \cap DOMAIN md),
     count |-> count + Cardinality(todo)]

RECURSIVE PasteLoop(_, _, _, _, _)
\* paste_tags: for key, value in self.clipboard_data.items(): ...
PasteLoop(todo, incoming, md, mod, count) ==
    IF todo = {} THEN [metadata |-> md, modified_fields |-> mod, count |-> count]
    ELSE LET key == CHOOSE k \in todo : TRUE
         IN  IF key \in DOMAIN md
             THEN PasteLoop(todo \ {key}, incoming,
                            [md EXCEPT ![key] = incoming[key]],
                            mod \cup {key}, count + 1)
             ELSE PasteLoop(todo \ {key}, incoming, md, mod, count)

\* export_metadata; written is whether the file could be written
ExportMetadata(written) ==
    /\ export_file' = IF metadata # EmptyRec /\ written THEN JsonDump(metadata)
                      ELSE export_file
    /\ op' = Op("export", IF metadata = EmptyRec THEN "nothing"
                          ELSE IF written THEN "ok" ELSE "failed", <<>>)
    /\ pre' = Snapshot
    /\ UNCHANGED <<current_file, metadata, modified_fields, clipboard_data, tree>>
    /\ BatchIdle

\* a JSON file with a key of the record and a key that no record has
DocKnown ==
    [kind |-> "object",
     members |-> {[k |-> <<"\"", "E", ":", "M", "\"">>, v |-> <<"\"", "b", "\"">>],
                  [k |-> <<"\"", "x", "\"">>, v |-> <<"2">>]}]
\* a JSON file that holds a list, and a file that is not JSON
DocList == [kind |-> "list", members |-> {}]
DocInvalid == [kind |-> "invalid", members |-> {}]

\* an import that empties the modified set before it reads the file
ImportMetadataResets(doc) ==
    /\ modified_fields' = {}
    /\ op' = [Op("import", "failed", <<>>) EXCEPT !.doc = doc]
    /\ pre' = Snapshot
    /\ UNCHANGED <<current_file, metadata, clipboard_data, tree, export_file>>
    /\ BatchIdle

\* import_metadata of the file doc
ImportMetadata(doc) ==
    IF doc.kind # "object"
    THEN /\ op' = [Op("import", "failed", <<>>) EXCEPT !.doc = doc]
         /\ pre' = Snapshot
         /\ UNCHANGED <<current_file, metadata, modified_fields, clipboard_data,
                        tree, export_file>>
         /\ BatchIdle
    ELSE LET incoming == JsonLoad(doc)
             m == ImportLoop(DOMAIN incoming, incoming, metadata,
                             modified_fields, 0)
             shown == DisplayMetadata(m.metadata, m.modified_fields)
         IN  /\ metadata' = m.metadata
             /\ modified_fields' = m.modified_fields
             /\ tree' = shown.tree
             /\ op' = [Op("import", IF shown.raised THEN "display_raised"
                                    ELSE "ok", <<>>)
                         EXCEPT !.count = m.count, !.incoming = incoming,
                                !.doc = doc]
             /\ pre' = Snapshot
             /\ UNCHANGED <<current_file, clipboard_data, export_file>>
             /\ BatchIdle

\* copy_all_tags
CopyAllTags ==
    /\ clipboard_data' = IF metadata = EmptyRec THEN clipboard_data
                         ELSE [kind |-> "dict", map |-> metadata]
    /\ op' = Op("copy", IF metadata = EmptyRec THEN "nothing" ELSE "ok", <<>>)
    /\ pre' = Snapshot
    /\ UNCHANGED <<current_file, metadata, modified_fields, tree, export_file>>
    /\ BatchIdle

\* `not self.clipboard_data`
Falsy(clip) == clip.kind = "dict" /\ clip.map = EmptyRec

\* json.loads of the system clipboard: a dict, or a value that is no dict
ClipLoad(doc) ==
    IF doc.kind = "object" THEN [kind |-> "dict", map |-> JsonLoad(doc)]
    ELSE [kind |-> "list", map |-> EmptyRec]

\* a paste that reads the system clipboard whenever it holds JSON
PasteTagsFromSystem(sys) ==
    LET clip == IF sys.kind # "invalid" THEN ClipLoad(sys) ELSE clipboard_data
        m == PasteLoop(DOMAIN clip.map, clip.map, metadata, modified_fields, 0)
        shown == DisplayMetadata(m.metadata, m.modified_fields)
    IN  /\ clipboard_data' = clip
        /\ metadata' = m.metadata
        /\ modified_fields' = m.modified_fields
        /\ tree' = shown.tree
        /\ op' = [Op("paste", IF shown.raised THEN "display_raised" ELSE "ok",
                     <<>>)
                    EXCEPT !.count = m.count, !.incoming = clip.map]
        /\ pre' = Snapshot
        /\ UNCHANGED <<current_file, export_file>>
        /\ BatchIdle

\* paste_tags; sys is the text on the system clipboard
PasteTags(sys) ==
    IF Falsy(clipboard_data) /\ sys.kind = "invalid"
    THEN /\ op' = Op("paste", "failed", <<>>)
         /\ pre' = Snapshot
         /\ UNCHANGED <<current_file, metadata, modified_fields, clipboard_data,
                        tree, export_file>>
         /\ BatchIdle
    ELSE LET clip == IF Falsy(clipboard_data) THEN ClipLoad(sys)
                     ELSE clipboard_data
         IN  IF clip.kind # "dict"
             THEN /\ clipboard_data' = clip
                  /\ op' = Op("paste", "attribute_error", <<>>)
                  /\ pre' = Snapshot
                  /\ UNCHANGED <<current_file, metadata, modified_fields, tree,
                                 export_file>>
                  /\ BatchIdle
             ELSE LET m == PasteLoop(DOMAIN clip.map, clip.map, metadata,
                                     modified_fields, 0)
                      shown == DisplayMetadata(m.metadata, m.modified_fields)
                  IN  /\ clipboard_data' = clip
                      /\ metadata' = m.metadata
                      /\ modified_fields' = m.modified_fields
                      /\ tree' = shown.tree
                      /\ op' = [Op("paste", IF shown.raised THEN "display_raised"
                                            ELSE "ok", <<>>)
                                  EXCEPT !.count = m.count,
                                         !.incoming = clip.map]
                      /\ pre' = Snapshot
                      /\ UNCHANGED <<current_file, export_file>>
                      /\ BatchIdle

(***************************************************************************)
(* TemplateManagerDialog.  The dialog takes no grab, so several can be     *)
(* open at once, each with the mapping it read when it was opened.  A      *)
(* dialog's templates is [kind, map]: kind "none" when the dialog is not   *)
(* open, "dict" with the mapping name -> tags, "list" when json.load gave  *)
(* a value that is no dict.  The store is the file: absent, text that is   *)
(* not JSON, JSON that is no object, or a JSON object whose members are    *)
(* [k, v], the text of the name and the JSON object of its tags.           *)
(***************************************************************************)

\* the template managers that can be open at once
MaxDialogs == 2
Dialogs == 1..MaxDialogs

\* the characters str.strip() removes, of those the model types
IsSpace(c) == c \in {" ", "\t"}

RECURSIVE LStrip(_)
LStrip(s) == IF s # <<>> /\ IsSpace(Head(s)) THEN LStrip(Tail(s)) ELSE s

RECURSIVE RStrip(_)
RStrip(s) ==
    IF s # <<>> /\ IsSpace(s[Len(s)]) THEN RStrip(SubSeq(s, 1, Len(s) - 1))
    ELSE s

\* s.strip()
Strip(s) == RStrip(LStrip(s))

RECURSIVE SplitLines(_)
\* content.split('\n')
SplitLines(s) ==
    LET i == FirstIndex(s, "\n")
    IN  IF i = 0 THEN <<s>>
        ELSE <<Take(s, i - 1)>> \o SplitLines(Drop(s, i))

RECURSIVE ParseLines(_, _)
\* the loop of save_template over the lines, tags the dict built so far
ParseLines(lines, tags) ==
    IF lines = <<>> THEN tags
    ELSE LET line == Strip(Head(lines))
             i == FirstIndex(line, "=")
             key == Strip(Take(line, i - 1))
             value == Strip(Drop(line, i))
         IN  IF line # <<>> /\ Head(line) # "#" /\ i # 0
             THEN ParseLines(Tail(lines),
                             [k \in DOMAIN tags \cup {key} |->
                                 IF k = key THEN StrVal(value) ELSE tags[k]])
             ELSE ParseLines(Tail(lines), tags)

ParseTags(content) == ParseLines(SplitLines(content), EmptyRec)

\* no template: the empty dict
NoTemplates == [n \in {} |-> EmptyRec]

\* json.dump(self.templates, f, indent=2, ensure_ascii=False)
TemplatesDump(map) ==
    [kind |-> "object",
     members |-> {[k |-> JsonDumpValue(StrVal(n)), v |-> JsonDump(map[n])] :
                    n \in DOMAIN map}]

\* json.load(f) of a store that holds a JSON object
TemplatesLoad(doc) ==
    [n \in {JsonLoadValue(e.k).s : e \in doc.members} |->
        JsonLoad((CHOOSE e \in doc.members : JsonLoadValue(e.k).s = n).v)]

StoreAbsent == [kind |-> "absent", members |-> {}]
StoreInvalid == [kind |-> "invalid", members |-> {}]
StoreList == [kind |-> "list", members |-> {}]

\* load_templates; readable is whether open() succeeds
LoadTemplates(st, readable) ==
    IF st.kind = "object" /\ readable
    THEN [kind |-> "dict", map |-> TemplatesLoad(st)]
    ELSE IF st.kind = "list" /\ readable
    THEN [kind |-> "list", map |-> NoTemplates]
    ELSE [kind |-> "dict", map |-> NoTemplates]

\* how save_templates can end: written, open() raised, the write raised
TemplateWrites(called) ==
    IF called THEN {"ok", "open_raised", "write_raised"} ELSE {"none"}

\* a save_templates that adds the templates to those of the file
SaveTemplatesMerging(map, st, w) ==
    IF w = "ok"
    THEN [kind |-> "object",
          members |-> TemplatesDump(map).members
                        \cup (IF st.kind = "object" THEN st.members ELSE {})]
    ELSE IF w = "write_raised" THEN StoreInvalid
    ELSE st

\* the file after save_templates: open(template_file, 'w') empties it before
\* json.dump writes
SaveTemplates(map, st, w) ==
    IF w = "ok" THEN TemplatesDump(map)
    ELSE IF w = "write_raised" THEN StoreInvalid
    ELSE st

\* the record of the last handler of a template manager: its name and how it
\* ended, the dialog, the name and the text typed, the name selected, the
\* dialog's templates and the store when it began
NoTop ==
    [name |-> "init", result |-> "", d |-> 0, raw |-> <<>>, content |-> <<>>,
     sel |-> <<>>, before |-> [kind |-> "none", map |-> NoTemplates],
     store |-> StoreAbsent]

TOp(name, result, d) ==
    [NoTop EXCEPT !.name = name, !.result = result, !.d = d,
                  !.before = templates[d], !.store = store]

\* a handler of a template manager touches neither the main window nor the
\* batch dialog
OthersIdle == UNCHANGED svars /\ UNCHANGED bvars

\* template_manager: TemplateManagerDialog.__init__ for dialog d
TemplateManager(d, readable) ==
    LET t == LoadTemplates(store, readable)
    IN  /\ templates[d].kind = "none"
        /\ templates' = [templates EXCEPT ![d] = t]
        /\ template_listbox' =
              [template_listbox EXCEPT
                  ![d] = IF t.kind = "dict" THEN SortStrs(DOMAIN t.map)
                         ELSE <<>>]
        /\ top' = TOp("open", IF t.kind = "dict" THEN "ok" ELSE "attribute_error",
                      d)
        /\ UNCHANGED store
        /\ OthersIdle

\* the window of dialog d is closed
CloseTemplateManager(d) ==
    /\ templates[d].kind # "none"
    /\ templates' = [templates EXCEPT ![d] = NoTop.before]
    /\ template_listbox' = [template_listbox EXCEPT ![d] = <<>>]
    /\ top' = TOp("close", "ok", d)
    /\ UNCHANGED store
    /\ OthersIdle

\* save_template of dialog d with the name and the text typed; w is how
\* save_templates ends
SaveTemplate(d, raw, content, w) ==
    LET name == Strip(raw)
        tags == ParseTags(content)
        t == templates[d]
        map == [n \in DOMAIN t.map \cup {name} |->
                   IF n = name THEN tags ELSE t.map[n]]
        result == IF name = <<>> THEN "no_name"
                  ELSE IF tags = EmptyRec THEN "no_tags"
                  ELSE IF t.kind # "dict" THEN "type_error"
                  ELSE IF w = "ok" THEN "ok" ELSE "write_failed"
    IN  /\ t.kind # "none"
        /\ top' = [TOp("save", result, d) EXCEPT !.raw = raw,
                                                  !.content = content]
        /\ IF result \in {"ok", "write_failed"}
           THEN /\ templates' = [templates EXCEPT ![d].map = map]
                /\ store' = SaveTemplates(map, store, w)
                /\ template_listbox' =
                      IF result = "ok"
                      THEN [template_listbox EXCEPT ![d] = SortStrs(DOMAIN map)]
                      ELSE template_listbox
           ELSE UNCHANGED <<templates, store, template_listbox>>
        /\ OthersIdle

\* delete_template of dialog d with entry j of the list box selected (0: no
\* selection); yes is the answer to "Delete template?"
DeleteTemplate(d, j, yes, w) ==
    LET t == templates[d]
        name == IF j = 0 THEN <<>> ELSE template_listbox[d][j]
        map == [n \in DOMAIN t.map \ {name} |-> t.map[n]]
        result == IF j = 0 THEN "no_selection"
                  ELSE IF ~yes THEN "declined"
                  ELSE IF name \notin DOMAIN t.map THEN "key_error"
                  ELSE IF w = "ok" THEN "ok" ELSE "write_failed"
    IN  /\ t.kind # "none"
        /\ top' = [TOp("delete", result, d) EXCEPT !.sel = name]
        /\ IF result \in {"ok", "write_failed"}
           THEN /\ templates' = [templates EXCEPT ![d].map = map]
                /\ store' = SaveTemplates(map, store, w)
                /\ template_listbox' =
                      IF result = "ok"
                      THEN [template_listbox EXCEPT ![d] = SortStrs(DOMAIN map)]
                      ELSE template_listbox
           ELSE UNCHANGED <<templates, store, template_listbox>>
        /\ OthersIdle

\* no template manager is open
NoDialogs ==
    /\ templates = [d \in Dialogs |-> NoTop.before]
    /\ template_listbox = [d \in Dialogs |-> <<>>]
    /\ top = NoTop

TemplateInit == NoDialogs /\ store = StoreAbsent

(***************************************************************************)
(* The editing session: the state after ExifToolGUI.__init__ and one       *)
(* action for each handler, with the inputs a user or the tool can give.   *)
(***************************************************************************)

SessionInit ==
    /\ current_file = None
    /\ metadata = EmptyRec
    /\ modified_fields = {}
    /\ clipboard_data = [kind |-> "dict", map |-> EmptyRec]
    /\ tree = <<>>
    /\ export_file = NoFile
    /\ op = NoOp
    /\ pre = [metadata |-> EmptyRec, modified_fields |-> {},
              current_file |-> None]

\* no message box: shown is the "Processed n files" box and n its number, info
\* is the "No files to process" box, confirm the answer to "Remove all
\* metadata from n files?" ("none" when it was not asked)
NoReport == [shown |-> FALSE, n |-> 0, info |-> FALSE, confirm |-> "none"]

BatchInit ==
    /\ files = <<>>
    /\ count_label = 0
    /\ operation_var = "remove_all"
    /\ bpc = "idle"
    /\ bi = 0
    /\ progress = "none"
    /\ log = <<>>
    /\ report = NoReport
    /\ bop = [name |-> "none", sel |-> <<>>, before |-> <<>>]

Init == SessionInit /\ BatchInit /\ TemplateInit /\ steps = 0

\* the number of handlers one run of the model goes through
MaxSteps == 4

\* the texts typed into the search box and into the edit dialog
SearchTexts == {<<>>, <<"N">>}
EditTexts(row) == {<<"b">>, row.value}

\* the files an import can be pointed at, and the system clipboard's texts
ImportDocs == {DocKnown, DocList, DocInvalid}
                \cup (IF export_file.kind = "object" THEN {export_file} ELSE {})
ClipDocs == {DocKnown, DocList, DocInvalid}

\* the outcomes of the calls a handler makes: none when it makes no call
Writes(called) == IF called THEN WriteOutcomes ELSE {"none"}
Reads(called) == IF called THEN ReadOutcomes ELSE {NoRead}

\* one more handler runs
Step == steps < MaxSteps /\ steps' = steps + 1

Next ==
    \/ Step /\ \E f \in Paths, statOk \in BOOLEAN : \E r \in Reads(statOk) :
            LoadFile(f, statOk, r)
    \/ Step /\ \E text \in SearchTexts : Filter(text)
    \/ Step /\ ShowModified
    \/ Step /\ \E i \in DOMAIN tree : \E j \in DOMAIN tree[i].rows :
            \E text \in EditTexts(tree[i].rows[j]) : EditTag(i, j, text)
    \/ Step /\ \E w \in Writes(current_file # None /\ modified_fields # {}) :
            \E r \in Reads(w = "0") : SaveChanges(w, r)
    \/ Step /\ \E yes \in BOOLEAN : \E w \in Writes(current_file # None /\ yes) :
            \E r \in Reads(w = "0") : RemoveAllTags(yes, w, r)
    \/ Step /\ \E inp \in ShiftInputs :
            \E w \in Writes(current_file # None
                             /\ ShiftParts(inp[1], inp[2], inp[3], inp[4],
                                           inp[5]) # <<>>) :
            \E r \in Reads(w = "0") : ApplyShift(inp, w, r)
    \/ Step /\ \E written \in BOOLEAN : ExportMetadata(written)
    \/ Step /\ \E doc \in ImportDocs : ImportMetadata(doc)
    \/ Step /\ CopyAllTags
    \/ Step /\ \E sys \in ClipDocs : PasteTags(sys)

Spec == Init /\ [][Next]_vars

(***************************************************************************)
(* The views on long values: one file is opened whose record has one tag   *)
(* with a value of 0 to MaxValueLen characters, then the views are built   *)
(* and the row is edited with texts around the limit of the truncation.    *)
(***************************************************************************)

\* the longest value and the longest text typed
MaxValueLen == 102

\* a text of n characters, the i-th one the last digit of i
LongText(n) == [i \in 1..n |-> DigitChar(i % 10)]

\* the record the tool prints: the tag "E:M" with a value of n characters
RecLong(n) == [k \in {KeyEM} |-> StrVal(LongText(n))]

\* the texts typed into the search box: none, and one that the key holds
LongSearchTexts == {<<>>, <<"M">>}

\* the texts typed into the edit dialog: the four longest; the dialog can
\* also be confirmed with the text it proposes, the value the row shows
LongEditTexts == {LongText(n) : n \in (MaxValueLen - 3)..MaxValueLen}

NextLong ==
    \/ Step /\ current_file = None /\ \E n \in 0..MaxValueLen :
            LoadFile("p1", TRUE, [rc |-> "0", good |-> TRUE, rec |-> RecLong(n)])
    \/ Step /\ \E text \in LongSearchTexts : Filter(text)
    \/ Step /\ ShowModified
    \/ Step /\ \E i \in DOMAIN tree : \E j \in DOMAIN tree[i].rows :
            \E text \in LongEditTexts \cup {tree[i].rows[j].value} :
                EditTag(i, j, text)

SpecLong == Init /\ [][NextLong]_vars

(***************************************************************************)
(* The views on values of every kind: the tool prints one tag, "E:M", whose *)
(* value is a string, a number or a list; the record is shown, filtered,   *)
(* copied, pasted and edited.                                              *)
(***************************************************************************)

\* the values the tool prints for the tag
KindValues ==
    {StrVal(<<"a">>), StrVal(<<"'">>), IntVal(<<"1">>), ListVal(<<>>),
     ListVal(<< <<"a">> >>), ListVal(<< <<"a">>, <<"b">> >>)}

RecKind(v) == [k \in {KeyEM} |-> v]

NextKinds ==
    \/ Step /\ \E f \in Paths, v \in KindValues :
            LoadFile(f, TRUE, [rc |-> "0", good |-> TRUE, rec |-> RecKind(v)])
    \/ Step /\ \E text \in LongSearchTexts : Filter(text)
    \/ Step /\ ShowModified
    \/ Step /\ \E i \in DOMAIN tree : \E j \in DOMAIN tree[i].rows :
            \E text \in EditTexts(tree[i].rows[j]) : EditTag(i, j, text)
    \/ Step /\ CopyAllTags
    \/ Step /\ \E sys \in ClipDocs : PasteTags(sys)

SpecKinds == Init /\ [][NextKinds]_vars

(***************************************************************************)
(* The shift dialog on all inputs: one file is opened, then apply_shift    *)
(* runs once with five numbers drawn from ShiftValues.                     *)
(***************************************************************************)

\* the largest number typed into a spin box
MaxShift == 10

\* the values of one spin box
ShiftValues == {-MaxShift, -1, 0, 1, MaxShift}

ShiftTuples ==
    {<<y, mo, d, h, mi>> : y \in ShiftValues, mo \in ShiftValues,
                           d \in ShiftValues, h \in ShiftValues,
                           mi \in ShiftValues}

NextShift ==
    \/ Step /\ current_file = None /\ \E f \in Paths :
            LoadFile(f, TRUE, [rc |-> "0", good |-> TRUE, rec |-> RecFull])
    \/ Step /\ op.name = "load_file" /\ \E inp \in ShiftTuples :
            \E w \in Writes(ShiftParts(inp[1], inp[2], inp[3], inp[4],
                                       inp[5]) # <<>>) :
            \E r \in Reads(w = "0") : ApplyShift(inp, w, r)

SpecShift == Init /\ [][NextShift]_vars

(***************************************************************************)
(* The template managers: the store holds what an earlier run left, the    *)
(* dialogs are opened and closed, templates are saved and deleted.         *)
(***************************************************************************)

KeyM == <<"M">>

\* the tags of a template the earlier run saved
TagsOld == [k \in {KeyM} |-> StrVal(<<"a">>)]

\* what the store can hold at the start: nothing, text that is not JSON, a
\* JSON list, the templates "a" and "b" written by an earlier run
StoreInits ==
    {StoreAbsent, StoreInvalid, StoreList,
     TemplatesDump([n \in {<<"a">>, <<"b">>} |-> TagsOld])}

\* the names typed: "", " ", " a", "b "
TemplateNames == {<<>>, <<" ">>, <<" ", "a">>, <<"b", " ">>}

\* the texts typed: "", "#M=x", " M = x \nN", "N=x\nN=a=b"
TemplateContents ==
    {<<>>,
     <<"#", "M", "=", "x">>,
     <<" ", "M", " ", "=", " ", "x", " ", "\n", "N">>,
     <<"N", "=", "x", "\n", "N", "=", "a", "=", "b">>}

InitTemplates ==
    /\ SessionInit
    /\ BatchInit
    /\ NoDialogs
    /\ store \in StoreInits
    /\ steps = 0

NextTemplates ==
    \/ Step /\ \E d \in Dialogs, readable \in BOOLEAN :
            TemplateManager(d, readable)
    \/ Step /\ \E d \in Dialogs : CloseTemplateManager(d)
    \/ Step /\ \E d \in Dialogs, raw \in TemplateNames,
                  content \in TemplateContents :
            \E w \in TemplateWrites(/\ templates[d].kind = "dict"
                                    /\ Strip(raw) # <<>>
                                    /\ ParseTags(content) # EmptyRec) :
                SaveTemplate(d, raw, content, w)
    \/ Step /\ \E d \in Dialogs, yes \in BOOLEAN :
            \E j \in 0..Len(template_listbox[d]) :
            \E w \in TemplateWrites(/\ yes
                                    /\ j # 0
                                    /\ template_listbox[d][j]
                                          \in DOMAIN templates[d].map) :
                DeleteTemplate(d, j, yes, w)

SpecTemplates == InitTemplates /\ [][NextTemplates]_vars

(***************************************************************************)
(* BatchProcessDialog.  The file dialogs return paths of BatchPaths.       *)
(* process_files is a sequence of steps: it is synchronous, and while it   *)
(* runs the progress dialog holds the grab, so that no other handler of    *)
(* the dialog runs in between.                                             *)
(***************************************************************************)

MaxFiles == 3

BatchPaths == {"f1", "f2", "f3", "f4"}

\* what askopenfilenames can return: one path, or two different ones
Selections ==
    {<<a>> : a \in BatchPaths}
        \cup {<<pr[1], pr[2]>> :
                pr \in {q \in BatchPaths \X BatchPaths : q[1] # q[2]}}

\* what Path(folder).iterdir() can yield: entries [path, supported], where
\* supported is is_file() and a suffix of FILE_CATEGORIES
Folders ==
    {<<[path |-> "f1", supported |-> TRUE], [path |-> "f2", supported |-> FALSE]>>,
     <<[path |-> "f3", supported |-> TRUE], [path |-> "f1", supported |-> TRUE]>>}

Operations == {"remove_all", "copy_template", "apply_tags", "shift_datetime"}

SessionIdle == UNCHANGED <<current_file, metadata, modified_fields,
                           clipboard_data, tree, export_file, op, pre, steps>>
                   /\ UNCHANGED tvars

InSeq(x, q) == \E i \in 1..Len(q) : q[i] = x

\* an insertion without the membership test: self.files.extend(sel)
AppendAll(list, sel) == list \o sel

RECURSIVE AppendNew(_, _)
\* for file in sel: if file not in self.files: self.files.append(file)
AppendNew(list, sel) ==
    IF sel = <<>> THEN list
    ELSE AppendNew(IF InSeq(Head(sel), list) THEN list
                   ELSE Append(list, Head(sel)), Tail(sel))

RECURSIVE Supported(_)
\* the entries of a folder that pass the is_file and suffix test, in order
Supported(entries) ==
    IF entries = <<>> THEN <<>>
    ELSE (IF Head(entries).supported THEN <<Head(entries).path>> ELSE <<>>)
            \o Supported(Tail(entries))

BatchFrame == UNCHANGED <<operation_var, bpc, bi, progress, log, report>>

\* add_files
AddFiles(sel) ==
    /\ bpc = "idle"
    /\ Len(AppendNew(files, sel)) <= MaxFiles
    /\ files' = AppendNew(files, sel)
    /\ count_label' = Len(files')
    /\ bop' = [name |-> "add_files", sel |-> sel, before |-> files]
    /\ BatchFrame
    /\ SessionIdle

\* add_folder
AddFolder(entries) ==
    /\ bpc = "idle"
    /\ Len(AppendNew(files, Supported(entries))) <= MaxFiles
    /\ files' = AppendNew(files, Supported(entries))
    /\ count_label' = Len(files')
    /\ bop' = [name |-> "add_folder", sel |-> Supported(entries), before |-> files]
    /\ BatchFrame
    /\ SessionIdle

\* clear_files
ClearFiles ==
    /\ bpc = "idle"
    /\ files' = <<>>
    /\ count_label' = 0
    /\ bop' = [name |-> "clear", sel |-> <<>>, before |-> files]
    /\ BatchFrame
    /\ SessionIdle

\* a radio button of the operations
SelectOperation(o) ==
    /\ bpc = "idle"
    /\ operation_var' = o
    /\ UNCHANGED <<files, count_label, bpc, bi, progress, log, report, bop>>
    /\ SessionIdle

\* a process_files without the test of the empty list
ProcessStartNoCheck(yes) ==
    /\ bpc = "idle"
    /\ IF operation_var = "remove_all" /\ yes
       THEN /\ bpc' = "loop"
            /\ bi' = 0
            /\ progress' = "open"
       ELSE /\ bpc' = "returned"
            /\ UNCHANGED <<bi, progress>>
    /\ report' = NoReport
    /\ log' = <<>>
    /\ UNCHANGED <<files, count_label, operation_var, bop>>
    /\ SessionIdle

\* process_files up to the loop: the notice for an empty list, then the one
\* branch there is, "remove_all", and its confirmation
ProcessStart(yes) ==
    /\ bpc = "idle"
    /\ IF files # <<>> /\ operation_var = "remove_all" /\ yes
       THEN /\ bpc' = "loop"
            /\ bi' = 0
            /\ progress' = "open"
            /\ report' = [NoReport EXCEPT !.confirm = "yes"]
       ELSE /\ bpc' = "returned"
            /\ report' = [NoReport EXCEPT
                            !.info = (files = <<>>),
                            !.confirm = IF files # <<>>
                                           /\ operation_var = "remove_all"
                                        THEN "no" ELSE "none"]
            /\ UNCHANGED <<bi, progress>>
    /\ log' = <<>>
    /\ UNCHANGED <<files, count_label, operation_var, bop>>
    /\ SessionIdle

\* a loop that counts from one: enumerate(self.files, 1)
ProgressUpdateOneBased(closes) ==
    /\ bpc = "loop"
    /\ bi < Len(files)
    /\ log' = Append(log, [ev |-> "progress", i |-> bi + 1,
                           path |-> files[bi + 1], rc |-> "none"])
    /\ bpc' = IF progress = "destroyed" THEN "tclerror" ELSE "launch"
    /\ progress' = IF closes THEN "destroyed" ELSE progress
    /\ UNCHANGED <<files, count_label, operation_var, bi, report, bop>>
    /\ SessionIdle

\* progress.update(i, ...) at the top of the loop body. ProgressDialog.update
\* sets the bar, configures the status label and runs the event loop once
\* (self.dialog.update()): a click on the window's close button that is
\* pending by then destroys the progress window, and the status label of a
\* destroyed window raises TclError at the next update, uncaught
ProgressUpdate(closes) ==
    /\ bpc = "loop"
    /\ bi < Len(files)
    /\ log' = Append(log, [ev |-> "progress", i |-> bi, path |-> files[bi + 1],
                           rc |-> "none"])
    /\ bpc' = IF progress = "destroyed" THEN "tclerror" ELSE "launch"
    /\ progress' = IF closes THEN "destroyed" ELSE progress
    /\ UNCHANGED <<files, count_label, operation_var, bi, report, bop>>
    /\ SessionIdle

\* a launch that does not wait for the tool: subprocess.Popen(cmd)
ToolLaunchDetached(started) ==
    /\ bpc = "launch"
    /\ log' = Append(log, [ev |-> IF started THEN "start" ELSE "raise",
                           i |-> bi, path |-> files[bi + 1], rc |-> "none"])
    /\ bi' = IF started THEN bi + 1 ELSE bi
    /\ bpc' = IF started THEN "loop" ELSE "aborted"
    /\ UNCHANGED <<files, count_label, operation_var, progress, report, bop>>
    /\ SessionIdle

\* subprocess.run(cmd, capture_output=True) starts the tool, or raises; the
\* exception is not caught in process_files
ToolLaunch(started) ==
    /\ bpc = "launch"
    /\ log' = Append(log, [ev |-> IF started THEN "start" ELSE "raise",
                           i |-> bi, path |-> files[bi + 1], rc |-> "none"])
    /\ bpc' = IF started THEN "running" ELSE "aborted"
    /\ UNCHANGED <<files, count_label, operation_var, bi, progress, report, bop>>
    /\ SessionIdle

\* the tool exits; its status is not looked at
ToolReturn(rc) ==
    /\ bpc = "running"
    /\ log' = Append(log, [ev |-> "return", i |-> bi, path |-> files[bi + 1],
                           rc |-> rc])
    /\ bi' = bi + 1
    /\ bpc' = "loop"
    /\ UNCHANGED <<files, count_label, operation_var, progress, report, bop>>
    /\ SessionIdle

\* after the loop: progress.close(), the message box, self.dialog.destroy()
ProcessFinish ==
    /\ bpc = "loop"
    /\ bi = Len(files)
    /\ progress' = "closed"
    /\ report' = [NoReport EXCEPT !.shown = TRUE, !.n = Len(files)]
    /\ bpc' = "done"
    /\ UNCHANGED <<files, count_label, operation_var, bi, log, bop>>
    /\ SessionIdle

\* process_files has returned without a run: the dialog is idle again
BackToIdle ==
    /\ bpc = "returned"
    /\ bpc' = "idle"
    /\ UNCHANGED <<files, count_label, operation_var, bi, progress, log, report,
                   bop>>
    /\ SessionIdle

BatchNext ==
    \/ \E sel \in Selections : AddFiles(sel)
    \/ \E entries \in Folders : AddFolder(entries)
    \/ ClearFiles
    \/ \E o \in Operations : SelectOperation(o)
    \/ \E yes \in BOOLEAN : ProcessStart(yes)
    \/ \E closes \in BOOLEAN : ProgressUpdate(closes)
    \/ \E started \in BOOLEAN : ToolLaunch(started)
    \/ \E rc \in {"0", "1"} : ToolReturn(rc)
    \/ ProcessFinish
    \/ BackToIdle

SpecBatch == Init /\ [][BatchNext]_vars

(***************************************************************************)
(* Properties of the editing session, checked under Spec.                  *)
(***************************************************************************)

\* C1: every key of the modified set is a key of the metadata record
ModifiedKeysExist == modified_fields \subseteq DOMAIN metadata

\* C2: a successful read of the tool replaces the metadata record by the
\* tool's output and leaves the modified set empty
LoadReplacesAndClears ==
    ReadOk(op.read) => metadata = op.read.rec /\ modified_fields = {}

\* C3: a save with a non-empty modified set leaves it empty when the tool
\* exits 0, and leaves the record and the modified set as they were when the
\* tool exits non-zero or cannot be launched
SaveClearsOrKeeps ==
    (op.name = "save" /\ pre.modified_fields # {}) =>
        /\ op.cmds # <<>>
        /\ op.cmds[1].rc = "0" => modified_fields = {}
        /\ op.cmds[1].rc \in {"1", "raise"} =>
              metadata = pre.metadata /\ modified_fields = pre.modified_fields

SaveFailedKeepsEdits ==
    op.name = "save" /\ op.result = "failed" /\ pre.modified_fields # {}

\* C4: a save makes exactly one write invocation, with the overwrite flag, the
\* current file and one set-field argument for each key of the modified set
\* carrying the value the record holds for that key; without a file or
\* without modified keys it makes no invocation
SaveWritesModifiedValues ==
    op.name = "save" =>
        IF pre.current_file = None \/ pre.modified_fields = {}
        THEN op.cmds = <<>>
        ELSE /\ Cardinality({c \in DOMAIN op.cmds : op.cmds[c].kind # "read"}) = 1
             /\ op.cmds[1].kind = "write"
             /\ op.cmds[1].overwrite
             /\ op.cmds[1].file = pre.current_file
             /\ Cardinality(op.cmds[1].args) = Cardinality(pre.modified_fields)
             /\ \A k \in pre.modified_fields :
                   /\ k \in DOMAIN pre.metadata
                   /\ SetFieldArg(k, pre.metadata[k]) \in op.cmds[1].args

\* the last handler was an import or a paste that ran its merge loop
MergeRan ==
    op.name \in {"import", "paste"} /\ op.result \in {"ok", "display_raised"}

\* the incoming keys the record had
Known == DOMAIN op.incoming \cap DOMAIN pre.metadata

\* C5: a merge adds no key to the record; an incoming key the record lacks
\* changes neither the record nor the modified set and is not counted, and a
\* merge of unknown keys only returns 0 and changes nothing
MergeSkipsUnknownKeys ==
    MergeRan =>
        /\ DOMAIN metadata = DOMAIN pre.metadata
        /\ \A k \in DOMAIN op.incoming \ DOMAIN pre.metadata :
              k \in modified_fields <=> k \in pre.modified_fields
        /\ op.count <= Cardinality(Known)
        /\ Known = {} =>
              /\ op.count = 0
              /\ metadata = pre.metadata
              /\ modified_fields = pre.modified_fields

MergeOfUnknownKeysOnly ==
    MergeRan /\ pre.metadata # EmptyRec /\ op.incoming # EmptyRec /\ Known = {}

\* C6: a merge sets every incoming key the record has to the incoming value
\* and marks it modified, leaves the other values alone, and counts the
\* incoming keys the record has
MergeUpdatesKnownKeys ==
    MergeRan =>
        /\ \A k \in DOMAIN pre.metadata :
              /\ k \in DOMAIN metadata
              /\ metadata[k] = IF k \in DOMAIN op.incoming THEN op.incoming[k]
                               ELSE pre.metadata[k]
        /\ modified_fields = pre.modified_fields \cup Known
        /\ op.count = Cardinality(Known)

MergeChangedAKnownKey ==
    /\ MergeRan
    /\ \E k \in Known : op.incoming[k] # pre.metadata[k]
    /\ DOMAIN pre.metadata \ DOMAIN op.incoming # {}

\* the file imported is the export of the record as it was, and the record
\* had no modified key
RoundTrip ==
    /\ op.name = "import"
    /\ op.doc.kind = "object"
    /\ export_file = op.doc
    /\ op.doc = JsonDump(pre.metadata)
    /\ pre.modified_fields = {}

\* C7: importing the export of an unmodified record leaves the modified set
\* empty and every value unchanged
RoundTripAddsNoModifiedKey ==
    RoundTrip => modified_fields = {} /\ metadata = pre.metadata

\* C7, as amended: importing the export of an unmodified record leaves every
\* value unchanged and adds no key, and marks every key of the record modified
RoundTripMarksEveryKey ==
    RoundTrip =>
        /\ metadata = pre.metadata
        /\ modified_fields = DOMAIN pre.metadata
        /\ op.count = Cardinality(DOMAIN pre.metadata)

RoundTripOfFullRecord == RoundTrip /\ pre.metadata = RecFull

\* C8: a confirmed edit of a row overwrites the value under the key the row
\* was built from and adds that key to the modified set, and creates or
\* changes no other key, whatever the key and the view
EditWritesRowKey ==
    op.name = "edit" =>
        /\ op.result = "saved"
        /\ op.tag = op.key
        /\ DOMAIN metadata = DOMAIN pre.metadata \cup {op.key}
        /\ \A k \in DOMAIN pre.metadata \ {op.key} : metadata[k] = pre.metadata[k]
        /\ modified_fields = pre.modified_fields \cup {op.key}

(***************************************************************************)
(* Properties of the batch run, checked under SpecBatch.                   *)
(***************************************************************************)

ProgressEvents == {p \in DOMAIN log : log[p].ev = "progress"}

\* C9: the files are visited in list order, one at a time: the progress
\* callback of a file comes right before the tool call for that file, the
\* call for a file has returned before the next progress callback, and the
\* progress indices are 0, 1, ..., n-1, each once, in increasing order
BatchInListOrder ==
    /\ \A p \in DOMAIN log :
          /\ log[p].ev = "progress" =>
                /\ log[p].i = Cardinality({q \in ProgressEvents : q < p})
                /\ log[p].path = files[log[p].i + 1]
                /\ p > 1 => log[p - 1].ev = "return" /\ log[p - 1].i + 1 = log[p].i
          /\ log[p].ev \in {"start", "raise"} =>
                /\ p > 1
                /\ log[p - 1].ev = "progress"
                /\ log[p - 1].i = log[p].i
                /\ log[p - 1].path = log[p].path
          /\ log[p].ev = "return" =>
                p > 1 /\ log[p - 1].ev = "start" /\ log[p - 1].i = log[p].i
    /\ bpc = "done" =>
          /\ Cardinality(ProgressEvents) = Len(files)
          /\ {log[p].i : p \in ProgressEvents} = 0..(Len(files) - 1)

BatchRunOfSeveralFilesDone ==
    bpc = "done" /\ Len(files) >= 2 /\ \E p \in DOMAIN log : log[p].rc = "1"

\* C10: a failure on a file, a non-zero exit or a failure to launch the tool,
\* does not halt the run
FailureNeverHaltsRun ==
    (\E p \in DOMAIN log :
        \/ log[p].ev = "raise"
        \/ log[p].ev = "return" /\ log[p].rc # "0") => bpc # "aborted"

\* the tool invocations of the run: the launches, started or not
Invocations == {p \in DOMAIN log : log[p].ev \in {"start", "raise"}}

\* C11: a confirmed run over n files ends completed, after exactly n tool
\* invocations, one per file, with n reported and the progress dialog closed
RunEndsCompleted ==
    bpc \in {"done", "aborted", "tclerror"} =>
        /\ bpc = "done"
        /\ Cardinality(Invocations) = Len(files)
        /\ \A i \in 0..(Len(files) - 1) :
              Cardinality({p \in Invocations : log[p].i = i}) = 1
        /\ report.shown /\ report.n = Len(files)
        /\ progress = "closed"

\* C12: process_files on an empty list makes no tool call and opens no
\* progress dialog: it tells that there is nothing to process and returns
EmptyListRunsNothing ==
    files = <<>> =>
        /\ bpc \in {"idle", "returned"}
        /\ progress = "none"
        /\ bpc = "returned" =>
              /\ log = <<>>
              /\ report.info
              /\ ~report.shown /\ report.n = 0

EmptyListProcessed == files = <<>> /\ bpc = "returned" /\ report.info

\* the paths of bop.sel that the list did not hold, each once, in the order
\* of their first occurrence in bop.sel
FirstInserted ==
    {i \in DOMAIN bop.sel :
        /\ ~InSeq(bop.sel[i], bop.before)
        /\ \A j \in 1..(i - 1) : bop.sel[j] # bop.sel[i]}

InFlight ==
    Cardinality({p \in DOMAIN log : log[p].ev = "start"})
        - Cardinality({p \in DOMAIN log : log[p].ev = "return"})

\* C14: at most one process of the external tool is in flight at any time
AtMostOneToolInFlight == InFlight \in {0, 1}

SecondToolInFlight ==
    /\ bpc = "running"
    /\ InFlight = 1
    /\ \E p \in DOMAIN log : log[p].ev = "return"

(***************************************************************************)
(* Properties of the views, checked under Spec.                            *)
(***************************************************************************)

\* the group a category node stands for: its text without the icon
GroupOf(node) == IF HasSpace(node.text) THEN AfterSpace(node.text) ELSE node.text

\* the rows of the tree, as (node, row) positions, and the keys they show
RowsShown == UNION {{<<i, j>> : j \in DOMAIN tree[i].rows} : i \in DOMAIN tree}
KeysShown == {tree[pos[1]].rows[pos[2]].key : pos \in RowsShown}

\* the last handler ran display_metadata on the record
DisplayedRecord ==
    \/ ReadOk(op.read)
    \/ op.name \in {"import", "paste"} /\ op.result \in {"ok", "display_raised"}
    \/ op.name = "filter" /\ op.term = <<>>

\* group and tag of a key: around the first ':', or "File" and the whole key
GroupOfKey(k) ==
    IF \E c \in DOMAIN k : k[c] = ":"
    THEN LET c == CHOOSE d \in DOMAIN k : k[d] = ":" /\ \A e \in 1..(d - 1) : k[e] # ":"
         IN  SubSeq(k, 1, c - 1)
    ELSE <<"F", "i", "l", "e">>
TagOfKey(k) ==
    IF \E c \in DOMAIN k : k[c] = ":"
    THEN LET c == CHOOSE d \in DOMAIN k : k[d] = ":" /\ \A e \in 1..(d - 1) : k[e] # ":"
         IN  SubSeq(k, c + 1, Len(k))
    ELSE k

\* C15: the view lists the groups in ascending order of their names and the
\* entries of each group in ascending order of their tag names; the grouped
\* view lists every group of the record with all the entries of the group
GroupedViewSorted ==
    /\ \A i, j \in DOMAIN tree :
          i < j => StrLess(GroupOf(tree[i]), GroupOf(tree[j]))
    /\ \A i \in DOMAIN tree : \A a, b \in DOMAIN tree[i].rows :
          a < b => \/ tree[i].rows[a].text = tree[i].rows[b].text
                   \/ StrLess(tree[i].rows[a].text, tree[i].rows[b].text)
    /\ DisplayedRecord =>
          \A g \in {GroupOfKey(k) : k \in DOMAIN metadata} :
              \E i \in DOMAIN tree :
                  /\ GroupOf(tree[i]) = g
                  /\ Len(tree[i].rows)
                        = Cardinality({k \in DOMAIN metadata : GroupOfKey(k) = g})

\* C16: every key of the record is shown by exactly one row of the grouped
\* view, under the group before its first ':' with the rest as tag name, or
\* under "File" with the whole key as tag name when it has no ':'
EveryKeyUnderItsGroup ==
    DisplayedRecord =>
        \A k \in DOMAIN metadata :
            /\ Cardinality({pos \in RowsShown :
                              tree[pos[1]].rows[pos[2]].key = k}) = 1
            /\ \A pos \in RowsShown :
                  tree[pos[1]].rows[pos[2]].key = k =>
                      /\ GroupOf(tree[pos[1]]) = GroupOfKey(k)
                      /\ tree[pos[1]].rows[pos[2]].text = TagOfKey(k)

\* C17: a filter with a text shows the entries whose lower-cased key or
\* lower-cased value holds the lower-cased text, and no other; a filter
\* without text shows every entry
FilterShowsTheMatches ==
    op.name = "filter" =>
        KeysShown =
            IF op.term = <<>> THEN DOMAIN metadata
            ELSE {k \in DOMAIN metadata :
                    \/ Contains(Lower(k), op.term)
                    \/ Contains(Lower(metadata[k].s), op.term)}

\* C18: the modified-only view shows the keys of the modified set and no
\* other, each once, under its group, with the value the record holds for it
ModifiedViewShowsModifiedKeys ==
    (op.name = "show_modified" /\ op.result = "shown") =>
        /\ KeysShown = modified_fields
        /\ Cardinality(RowsShown) = Cardinality(modified_fields)
        /\ \A pos \in RowsShown :
              LET row == tree[pos[1]].rows[pos[2]]
              IN  /\ GroupOf(tree[pos[1]]) = GroupOfKey(row.key)
                  /\ row.text = TagOfKey(row.key)
                  /\ row.key \in DOMAIN metadata
                  /\ row.value = metadata[row.key].s

\* C20: a shift of five zeros builds the empty expression, invokes no tool
\* and leaves the record and the modified set as they were
ZeroShiftDoesNothing ==
    (op.name = "shift" /\ op.inp = <<0, 0, 0, 0, 0>>) =>
        /\ Join(ShiftParts(0, 0, 0, 0, 0)) = <<>>
        /\ op.result = "nothing"
        /\ op.cmds = <<>>
        /\ metadata = pre.metadata
        /\ modified_fields = pre.modified_fields

ZeroShiftOnAnEditedFile ==
    /\ op.name = "shift"
    /\ op.inp = <<0, 0, 0, 0, 0>>
    /\ pre.current_file # None
    /\ pre.modified_fields # {}

(***************************************************************************)
(* Properties of the truncation, checked under SpecLong.                   *)
(***************************************************************************)

\* C19: a value of more than 100 characters is shown as its first 97
\* characters and "...", a value of at most 100 characters as it is, and no
\* value shown is longer than 100 characters, in every view and in the row
\* of an edit
ShownValueTruncated ==
    \A pos \in RowsShown :
        LET row == tree[pos[1]].rows[pos[2]]
            s == Get(metadata, row.key, StrVal(<<>>)).s
        IN  /\ row.key \in DOMAIN metadata
            /\ Len(row.value) <= 100
            /\ row.value = IF Len(s) > 100
                           THEN SubSeq(s, 1, 97) \o <<".", ".", ".">>
                           ELSE s

EditShowsTruncatedText ==
    /\ op.name = "edit"
    /\ \E pos \in RowsShown :
          LET row == tree[pos[1]].rows[pos[2]]
          IN  /\ row.key \in DOMAIN metadata
              /\ Len(metadata[row.key].s) = 101
              /\ Len(row.value) = 100

\* C29: an edit confirmed with the text the dialog proposed leaves the value
\* of the row's key in the record as it was
UnchangedEditKeepsValue ==
    (op.name = "edit" /\ op.result = "saved" /\ op.text = op.shown
       /\ op.key \in DOMAIN pre.metadata) =>
        /\ op.key \in DOMAIN metadata
        /\ metadata[op.key] = pre.metadata[op.key]

(***************************************************************************)
(* A property of the display string, checked under SpecKinds.              *)
(***************************************************************************)

\* the values that the rows of key k show in a tree
ValuesOf(tr, k) ==
    {tr[i].rows[j].value :
        <<i, j>> \in {pos \in UNION {{<<a, b>> : b \in DOMAIN tr[a].rows} :
                                        a \in DOMAIN tr} :
                        tr[pos[1]].rows[pos[2]].key = k}}

\* C27: every key of the record is shown with one and the same string by
\* the grouped view, by the filtered view of a search that finds the key and
\* by the modified-only view
ViewsRenderAlike ==
    \A k \in DOMAIN metadata :
        LET g == ValuesOf(DisplayMetadata(metadata, {k}).tree, k)
            f == ValuesOf(FilterMetadata(metadata, {k}, Lower(k)).tree, k)
            m == ValuesOf(ShowModifiedOnly(metadata, {k}).tree, k)
        IN  /\ Cardinality(g) = 1
            /\ g = f
            /\ f = m

(***************************************************************************)
(* Properties of the template store, checked under SpecTemplates.          *)
(***************************************************************************)

\* n is raw without the white space at its two ends
IsTrimOf(n, raw) ==
    \E i \in 1..(Len(raw) + 1), j \in 0..Len(raw) :
        /\ n = SubSeq(raw, i, j)
        /\ \A k \in 1..(i - 1) : IsSpace(raw[k])
        /\ \A k \in (j + 1)..Len(raw) : IsSpace(raw[k])
        /\ n # <<>> => ~IsSpace(n[1]) /\ ~IsSpace(n[Len(n)])

\* the tags a text stands for: a key for every line that, trimmed, is not
\* empty, is no comment and holds a "=", with the value of the last such line
ExpectedTags(content) ==
    LET ls == SplitLines(content)
        trimmed(i) == CHOOSE t \in {SubSeq(ls[i], a, b) :
                                      a \in 1..(Len(ls[i]) + 1),
                                      b \in 0..Len(ls[i])} : IsTrimOf(t, ls[i])
        eq(i) == FirstIndex(trimmed(i), "=")
        valid == {i \in DOMAIN ls :
                    /\ trimmed(i) # <<>>
                    /\ trimmed(i)[1] # "#"
                    /\ eq(i) # 0}
        keyOf(i) == Strip(SubSeq(trimmed(i), 1, eq(i) - 1))
        valOf(i) == Strip(SubSeq(trimmed(i), eq(i) + 1, Len(trimmed(i))))
        last(k) == CHOOSE i \in valid :
                      keyOf(i) = k /\ \A j \in valid : keyOf(j) = k => j <= i
    IN  [k \in {keyOf(i) : i \in valid} |-> StrVal(valOf(last(k)))]

\* C24: after a save or a delete that succeeded the store holds the
\* dialog's mapping; the save bound the trimmed name to the tags of the text
\* and the delete removed the selected name, all other templates as before; a
\* save with a blank name or with no valid line changed neither
TemplateStoreFollowsMapping ==
    /\ (top.name \in {"save", "delete"} /\ top.result = "ok") =>
          /\ store.kind = "object"
          /\ TemplatesLoad(store) = templates[top.d].map
    /\ (top.name = "save" /\ top.result = "ok") =>
          LET now == templates[top.d].map
              was == top.before.map
          IN  \E n \in DOMAIN now :
                 /\ IsTrimOf(n, top.raw)
                 /\ now[n] = ExpectedTags(top.content)
                 /\ DOMAIN now = DOMAIN was \cup {n}
                 /\ \A m \in DOMAIN was \ {n} : now[m] = was[m]
    /\ (top.name = "delete" /\ top.result = "ok") =>
          LET now == templates[top.d].map
              was == top.before.map
          IN  /\ top.sel \in DOMAIN was
              /\ DOMAIN now = DOMAIN was \ {top.sel}
              /\ \A m \in DOMAIN now : now[m] = was[m]
    /\ (top.name = "save"
          /\ \/ \A i \in DOMAIN top.raw : IsSpace(top.raw[i])
             \/ ExpectedTags(top.content) = EmptyRec) =>
          /\ top.result \in {"no_name", "no_tags"}
          /\ templates[top.d] = top.before
          /\ store = top.store

TemplateReplacedByTrimmedName ==
    /\ top.name = "save"
    /\ top.result = "ok"
    /\ top.raw # Strip(top.raw)
    /\ Strip(top.raw) \in DOMAIN top.before.map
    /\ top.before.map[Strip(top.raw)] # templates[top.d].map[Strip(top.raw)]
    /\ Cardinality(DOMAIN templates[top.d].map) >= 2
    /\ store # top.store

(***************************************************************************)
(* Properties of the shift expression, checked under SpecShift and Spec.   *)
(***************************************************************************)

\* a number with its sign, and the minutes with their sign and at most one
\* zero of padding
SignedField(n) == <<IF n < 0 THEN "-" ELSE "+">> \o Digits(Abs(n))
MinuteFields(n) ==
    {<<IF n < 0 THEN "-" ELSE "+">> \o Zeros(z) \o Digits(Abs(n)) : z \in 0..1}

\* the expressions with one clause for each group that is not zero, in the
\* order years, months, days, hours and minutes
ExpectedExprs(inp) ==
    LET ys == IF inp[1] # 0 THEN <<SignedField(inp[1]) \o <<":", "0", ":", "0">>>>
              ELSE <<>>
        ms == IF inp[2] # 0
              THEN <<(<<"0", ":">> \o SignedField(inp[2]) \o <<":", "0">>)>>
              ELSE <<>>
        ds == IF inp[3] # 0 THEN <<(<<"0", ":", "0", ":">> \o SignedField(inp[3]))>>
              ELSE <<>>
        cs == IF inp[4] # 0 \/ inp[5] # 0
              THEN {<<(SignedField(inp[4]) \o <<":">> \o mf \o <<":", "0">>)>> :
                      mf \in MinuteFields(inp[5])}
              ELSE {<<>>}
    IN  {Join(ys \o ms \o ds \o c) : c \in cs}

\* C21: the shift expression has one clause for each group that is not zero,
\* separated by spaces, in the order years, months, days, hours and minutes,
\* and every number taken from the inputs carries its sign
ShiftExpressionByGroups ==
    (op.name = "shift" /\ pre.current_file # None) =>
        IF op.inp = <<0, 0, 0, 0, 0>> THEN op.cmds = <<>>
        ELSE /\ op.cmds # <<>>
             /\ op.cmds[1].kind = "shift"
             /\ \E e \in ExpectedExprs(op.inp) : op.cmds[1].args = {e}

ShiftOfEveryGroup ==
    /\ op.name = "shift"
    /\ op.cmds # <<>>
    /\ \A g \in 1..5 : op.inp[g] # 0
    /\ op.inp[5] = -MaxShift

\* C22: the inputs (1,0,0,0,0) give "+1:0:0" and the inputs (0,0,0,2,-5)
\* give "0:0:0 +2:-05:0"
ShiftExamples ==
    (op.name = "shift" /\ pre.current_file # None) =>
        /\ op.inp = <<1, 0, 0, 0, 0>> =>
              op.cmds[1].args = {<<"+", "1", ":", "0", ":", "0">>}
        /\ op.inp = <<0, 0, 0, 2, -5>> =>
              op.cmds[1].args = {<<"0", ":", "0", ":", "0", " ", "+", "2", ":",
                                   "-", "0", "5", ":", "0">>}

(***************************************************************************)
(* Further properties of the session, checked under Spec.                  *)
(***************************************************************************)

\* C23: an import of a file that is not JSON, or whose JSON is not an
\* object, fails and leaves the record and the modified set as they were
BadImportChangesNothing ==
    (op.name = "import" /\ op.doc.kind \in {"list", "invalid"}) =>
        /\ op.result = "failed"
        /\ metadata = pre.metadata
        /\ modified_fields = pre.modified_fields

BadImportAfterAnEdit ==
    /\ op.name = "import"
    /\ op.doc.kind \in {"list", "invalid"}
    /\ pre.modified_fields # {}

\* C25: an open whose read of the metadata fails does not leave the new
\* file as the current file together with the tags of the file before
FailedOpenIsAborted ==
    (op.name = "load_file" /\ op.result = "read_failed") =>
        ~ /\ current_file # pre.current_file
          /\ pre.current_file # None
          /\ pre.metadata # EmptyRec
          /\ metadata = pre.metadata

\* C26: paste and import apply the same merge: for the record and the
\* incoming mapping of either, both loops give the record, the modified set
\* and the count that the handler left
PasteAndImportAgree ==
    MergeRan =>
        LET a == ImportLoop(DOMAIN op.incoming, op.incoming, pre.metadata,
                            pre.modified_fields, 0)
            b == PasteLoop(DOMAIN op.incoming, op.incoming, pre.metadata,
                           pre.modified_fields, 0)
        IN  /\ a = b
            /\ metadata = a.metadata
            /\ modified_fields = a.modified_fields
            /\ op.count = a.count

PasteOfKnownAndUnknownKeys ==
    /\ op.name = "paste"
    /\ op.result = "ok"
    /\ op.count > 0
    /\ DOMAIN op.incoming \ DOMAIN pre.metadata # {}

\* C30: a copy is a snapshot of the record, and a paste applies the last
\* copy: the clipboard of the session changes only by a copy of a record
\* that is not empty and by a paste that finds it empty, and a paste that
\* finds it filled applies its pairs and leaves it as it is
CopyIsSnapshot ==
    [][/\ op'.name \notin {"copy", "paste"} => clipboard_data' = clipboard_data
       /\ op'.name = "copy" =>
             clipboard_data' = IF metadata = EmptyRec THEN clipboard_data
                               ELSE [kind |-> "dict", map |-> metadata]
       /\ (op'.name = "paste" /\ ~Falsy(clipboard_data)) =>
             /\ clipboard_data' = clipboard_data
             /\ clipboard_data.kind = "dict" =>
                   /\ op'.result \in {"ok", "display_raised"}
                   /\ op'.incoming = clipboard_data.map]_vars

PasteOfAnOlderCopy ==
    /\ op.name = "paste"
    /\ op.result = "ok"
    /\ op.incoming \in ToolRecords
    /\ op.incoming # pre.metadata
    /\ clipboard_data.map = op.incoming

(***************************************************************************)
(* A further property of the batch run, checked under SpecBatch.           *)
(***************************************************************************)

\* C28: for every operation of the dialog, process_files on a list that is
\* not empty runs the operation on the files, unless the user declines
EveryOperationRuns ==
    (files # <<>> /\ bpc = "returned") => report.confirm = "no"

====
